---- MODULE Spec2Model ----
(***************************************************************************)
(* Model of the transaction execution queue of src/api/TxExecutor.ts.      *)
(*                                                                         *)
(* makeRequest pushes a request on a fastq queue of concurrency 1 whose    *)
(* worker is execute.  execute is an async function: every await of a      *)
(* collaborator (balance, nonce, confirmation popup, populateTransaction,  *)
(* forwardOrThrow, waitForTransaction) is a point where other callbacks    *)
(* (further makeRequest calls, the clock) interleave, so each return of a  *)
(* collaborator is one action.  Times are in milliseconds, balances in     *)
(* thousandths of an ETH.                                                  *)
(***************************************************************************)
EXTENDS Integers, Sequences, FiniteSets, TLC

\* ---- bounds of the model ------------------------------------------------
MaxReq == 2
MaxTicks == 3
MaxNetNonce == 1
StartNonce == 1

\* ---- program constants --------------------------------------------------
TX_SUBMIT_TIMEOUT == 30000
NONCE_STALE_AFTER_MS == 20000
\* 0.002 ETH, in thousandths of an ETH
MIN_BALANCE_ETH == 2
ConcurrencyTwo == 1 + 1

\* second argument of FastQueue(worker, concurrency)
Concurrency == 1

\* granularity of the clock: half of the staleness threshold, so that
\* "exactly the threshold" and "more than the threshold" both happen
TickMs == NONCE_STALE_AFTER_MS \div 2
\* Date.now() is positive
StartTime == TickMs
\* a local of execute still holding undefined
Undefined == 0 - 1

Reqs == 1..MaxReq
Accounts == {"A", "B"}
\* values of the account's next nonce the network reports
NetNonces == 0..MaxNetNonce
\* balances just below the floor and at the floor
Balances == {MIN_BALANCE_ETH - 1, MIN_BALANCE_ETH}
ReceiptStatuses == {0, 1}
\* account A has set its optout-metrics flag, account B has not
OptedOut == {"A"}

VARIABLES
  pc,              \* position of each request: new, queued, a step of execute, done
  txRequests,      \* the FIFO of requests waiting for the worker
  nonce,           \* this.nonce
  lastTransaction, \* this.lastTransaction
  now,             \* Date.now()
  time_submitted,  \* local of execute, per request
  timer,           \* when the pending timer of timeoutAfter was started, per request
  err,             \* local error of execute, per request ("none" = undefined)
  subRes,          \* calls of onTransactionResponse, per request
  subRej,          \* calls of onSubmissionError, per request
  confRes,         \* calls of onTransactionReceipt, per request
  confRej,         \* calls of onReceiptError, per request
  notifs,          \* calls of notifsManager.balanceEmpty(), per request
  sent,            \* transactions handed to forwardOrThrow, in order
  rstatus,         \* status of the receipt waitForTransaction returned, per request
  balanceSeen,     \* balance getBalance returned, per request
  startNonce,      \* this.nonce when execute was called, per request
  nonce0,          \* the constructor's argument
  base,            \* value last assigned to this.nonce by the constructor or a refresh
  since,           \* successful submissions since base was assigned
  account,         \* EthConnection.getInstance().getAddress()
  optout,          \* accounts whose localStorage optout-metrics flag is 'true'
  records          \* calls of EventLogger.logEvent

vars == <<pc, txRequests, nonce, lastTransaction, now, time_submitted, timer, err,
          subRes, subRej, confRes, confRej, notifs, sent, rstatus,
          balanceSeen, startNonce, nonce0, base, since, account, optout,
          records>>

locals == <<time_submitted, timer>>
futures == <<subRes, subRej, confRes, confRej>>
nonceState == <<nonce, lastTransaction, base, since>>
instr == <<account, optout, records>>

\* steps of execute during which the worker is occupied by the request
ActivePcs == {"checkBalance", "getNonce", "popup", "populate", "submit",
              "waitReceipt", "log"}

Active == {r \in Reqs : pc[r] \in ActivePcs}

\* fastq's count of running workers
running == Cardinality(Active)

\* JavaScript truthiness of a number | undefined
Truthy(t) == t # Undefined /\ t # 0

IsStaleAtThreshold(t, last) == t - last >= NONCE_STALE_AFTER_MS

\* maybeUpdateNonce's condition
IsStale(t, last) == t - last > NONCE_STALE_AFTER_MS

TimedOutNever(t, at) == FALSE

\* timeoutAfter(promise, TX_SUBMIT_TIMEOUT, ..): the timer has fired
TimedOut(t, at) == t - at >= TX_SUBMIT_TIMEOUT

CatchTargetAlwaysSubmission(ts) == "submission"

\* the channel the catch block of execute rejects
CatchTarget(ts) == IF ~Truthy(ts) THEN "submission" ELSE "receipt"

NonceAfterAckSkip(n) == n + 2

NonceAfterAckKeeps(n) == n

\* this.nonce += 1 after the acknowledgement
NonceAfterAck(n) == n + 1

BelowFloorOff(b) == b < MIN_BALANCE_ETH - 1

\* checkBalance's condition
BelowFloor(b) == b < MIN_BALANCE_ETH

\* the transaction execute handed to forwardOrThrow for request r
TxOf(r) == CHOOSE i \in 1..Len(sent) : sent[i].req = r

Init ==
  /\ pc = [r \in Reqs |-> "new"]
  /\ txRequests = <<>>
  /\ nonce0 = StartNonce
  /\ nonce = nonce0
  /\ base = nonce0
  /\ since = 0
  /\ now = StartTime
  /\ lastTransaction = now
  /\ time_submitted = [r \in Reqs |-> Undefined]
  /\ timer = [r \in Reqs |-> Undefined]
  /\ err = [r \in Reqs |-> "none"]
  /\ subRes = [r \in Reqs |-> 0]
  /\ subRej = [r \in Reqs |-> 0]
  /\ confRes = [r \in Reqs |-> 0]
  /\ confRej = [r \in Reqs |-> 0]
  /\ notifs = [r \in Reqs |-> 0]
  /\ sent = <<>>
  /\ rstatus = [r \in Reqs |-> Undefined]
  /\ balanceSeen = [r \in Reqs |-> Undefined]
  /\ startNonce = [r \in Reqs |-> Undefined]
  /\ account \in Accounts
  /\ optout = OptedOut
  /\ records = 0

CanStartAlways(n) == TRUE

\* the queue's worker may take one more request
CanStart(n) == n < Concurrency

makeRequestReservesNonce(r) ==
  /\ pc[r] = "new"
  /\ IF r = 1 THEN TRUE ELSE pc[r - 1] # "new"
  /\ IF CanStart(running)
       THEN /\ pc' = [pc EXCEPT ![r] = "checkBalance"]
            /\ startNonce' = [startNonce EXCEPT ![r] = nonce]
            /\ txRequests' = txRequests
       ELSE /\ pc' = [pc EXCEPT ![r] = "queued"]
            /\ txRequests' = Append(txRequests, r)
            /\ startNonce' = startNonce
  /\ nonce' = nonce + 1
  /\ UNCHANGED <<lastTransaction, base, since, now, locals, err, futures,
                 notifs, sent, rstatus, balanceSeen, nonce0, instr>>

\* makeRequest: requests are numbered in the order of the calls; fastq's
\* push starts the worker at once when it is idle and queues otherwise
makeRequest(r) ==
  /\ pc[r] = "new"
  /\ IF r = 1 THEN TRUE ELSE pc[r - 1] # "new"
  /\ IF CanStart(running)
       THEN /\ pc' = [pc EXCEPT ![r] = "checkBalance"]
            /\ startNonce' = [startNonce EXCEPT ![r] = nonce]
            /\ txRequests' = txRequests
       ELSE /\ pc' = [pc EXCEPT ![r] = "queued"]
            /\ txRequests' = Append(txRequests, r)
            /\ startNonce' = startNonce
  /\ UNCHANGED <<nonceState, now, locals, err, futures, notifs, sent,
                 rstatus, balanceSeen, nonce0, instr>>

\* the request fastq takes next from the waiting requests
NextIndex(q) == 1

ReleaseStalls(r) ==
  /\ pc' = [pc EXCEPT ![r] = "done"]
  /\ time_submitted' = [time_submitted EXCEPT ![r] = Undefined]
  /\ UNCHANGED <<txRequests, startNonce>>

\* pc after execute returned (or threw) for r: fastq's release takes the
\* next waiting request, if any, and calls the worker with it
Release(r) ==
  IF txRequests # <<>>
    THEN LET i == NextIndex(txRequests)
             n == txRequests[i]
         IN /\ pc' = [pc EXCEPT ![r] = "done", ![n] = "checkBalance"]
            /\ time_submitted' = [time_submitted EXCEPT ![r] = Undefined]
            /\ startNonce' = [startNonce EXCEPT ![n] = nonce]
            /\ txRequests' = [j \in 1..(Len(txRequests) - 1) |->
                                IF j < i THEN txRequests[j] ELSE txRequests[j + 1]]
    ELSE /\ pc' = [pc EXCEPT ![r] = "done"]
         /\ time_submitted' = [time_submitted EXCEPT ![r] = Undefined]
         /\ UNCHANGED <<txRequests, startNonce>>

FailRetries(r, kind) ==
  IF kind = "timeout"
    THEN /\ pc' = [pc EXCEPT ![r] = "populate"]
         /\ UNCHANGED <<err, futures>>
    ELSE /\ err' = [err EXCEPT ![r] = kind]
         /\ subRej' = [subRej EXCEPT ![r] = @ + 1]
         /\ pc' = [pc EXCEPT ![r] = "log"]
         /\ UNCHANGED <<subRes, confRes, confRej>>

FailFallsThrough(r, kind) ==
  /\ err' = [err EXCEPT ![r] = kind]
  /\ subRej' = [subRej EXCEPT ![r] = @ + 1]
  /\ pc' = [pc EXCEPT ![r] = IF kind = "denied" THEN "populate" ELSE "log"]
  /\ UNCHANGED <<subRes, confRes, confRej>>

\* the catch block of execute: record the error and reject one channel
Fail(r, kind) ==
  /\ err' = [err EXCEPT ![r] = kind]
  /\ IF CatchTarget(time_submitted[r]) = "submission"
       THEN /\ subRej' = [subRej EXCEPT ![r] = @ + 1]
            /\ confRej' = confRej
       ELSE /\ confRej' = [confRej EXCEPT ![r] = @ + 1]
            /\ subRej' = subRej
  /\ pc' = [pc EXCEPT ![r] = "log"]
  /\ UNCHANGED <<subRes, confRes>>

\* checkBalance: getBalance returned b
checkBalance(r, b) ==
  /\ pc[r] = "checkBalance"
  /\ balanceSeen' = [balanceSeen EXCEPT ![r] = b]
  /\ IF BelowFloor(b)
       THEN /\ notifs' = [notifs EXCEPT ![r] = @ + 1]
            /\ Fail(r, "balance")
       ELSE /\ pc' = [pc EXCEPT ![r] =
                        IF IsStale(now, lastTransaction) THEN "getNonce" ELSE "popup"]
            /\ UNCHANGED <<notifs, err, futures>>
  /\ UNCHANGED <<txRequests, nonceState, now, locals, sent, rstatus,
                 startNonce, nonce0, instr>>

\* checkBalance: getBalance threw
checkBalanceThrows(r) ==
  /\ pc[r] = "checkBalance"
  /\ Fail(r, "network")
  /\ UNCHANGED <<txRequests, nonceState, now, locals, notifs, sent,
                 rstatus, balanceSeen, startNonce, nonce0, instr>>

\* maybeUpdateNonce: getNonce returned n
maybeUpdateNonce(r, n) ==
  /\ pc[r] = "getNonce"
  /\ nonce' = n
  /\ base' = n
  /\ since' = 0
  /\ pc' = [pc EXCEPT ![r] = "popup"]
  /\ UNCHANGED <<txRequests, lastTransaction, now, locals, err,
                 futures, notifs, sent, rstatus, balanceSeen, startNonce,
                 nonce0, instr>>

\* maybeUpdateNonce: getNonce threw
maybeUpdateNonceThrows(r) ==
  /\ pc[r] = "getNonce"
  /\ Fail(r, "network")
  /\ UNCHANGED <<txRequests, nonceState, now, locals, notifs, sent,
                 rstatus, balanceSeen, startNonce, nonce0, instr>>

\* openConfirmationWindowForTransaction resolved
popupApproves(r) ==
  /\ pc[r] = "popup"
  /\ pc' = [pc EXCEPT ![r] = "populate"]
  /\ UNCHANGED <<txRequests, nonceState, now, locals, err, futures,
                 notifs, sent, rstatus, balanceSeen, startNonce, nonce0, instr>>

\* openConfirmationWindowForTransaction rejected
popupDenies(r) ==
  /\ pc[r] = "popup"
  /\ Fail(r, "denied")
  /\ UNCHANGED <<txRequests, nonceState, now, locals, notifs, sent,
                 rstatus, balanceSeen, startNonce, nonce0, instr>>

\* populateTransaction returned: forwardOrThrow is called with this.nonce
\* and its promise is handed to timeoutAfter
submit(r) ==
  /\ pc[r] = "populate"
  /\ sent' = Append(sent, [req |-> r, nonce |-> nonce, st |-> "handed",
                           ok |-> FALSE, base |-> base, since |-> since])
  /\ timer' = [timer EXCEPT ![r] = now]
  /\ pc' = [pc EXCEPT ![r] = "submit"]
  /\ UNCHANGED <<txRequests, nonceState, now, time_submitted, err, futures,
                 notifs, rstatus, balanceSeen, startNonce, nonce0, instr>>

\* populateTransaction threw
populateThrows(r) ==
  /\ pc[r] = "populate"
  /\ Fail(r, "network")
  /\ UNCHANGED <<txRequests, nonceState, now, locals, notifs, sent,
                 rstatus, balanceSeen, startNonce, nonce0, instr>>

submitAckReleases(r) ==
  /\ pc[r] = "submit"
  /\ ~TimedOut(now, timer[r])
  /\ timer' = [timer EXCEPT ![r] = Undefined]
  /\ time_submitted' = [time_submitted EXCEPT ![r] = now]
  /\ nonce' = NonceAfterAck(nonce)
  /\ lastTransaction' = now
  /\ since' = since + 1
  /\ subRes' = [subRes EXCEPT ![r] = @ + 1]
  /\ sent' = [sent EXCEPT ![TxOf(r)].st = "acked", ![TxOf(r)].ok = TRUE]
  /\ IF txRequests # <<>>
       THEN /\ pc' = [pc EXCEPT ![r] = "waitReceipt",
                                ![Head(txRequests)] = "checkBalance"]
            /\ startNonce' = [startNonce EXCEPT
                                ![Head(txRequests)] = NonceAfterAck(nonce)]
            /\ txRequests' = Tail(txRequests)
       ELSE /\ pc' = [pc EXCEPT ![r] = "waitReceipt"]
            /\ UNCHANGED <<txRequests, startNonce>>
  /\ UNCHANGED <<base, now, err, subRej, confRes, confRej, notifs,
                 rstatus, balanceSeen, nonce0, instr>>

\* forwardOrThrow resolved before the timer fired
submitAck(r) ==
  /\ pc[r] = "submit"
  /\ ~TimedOut(now, timer[r])
  /\ timer' = [timer EXCEPT ![r] = Undefined]
  /\ time_submitted' = [time_submitted EXCEPT ![r] = now]
  /\ nonce' = NonceAfterAck(nonce)
  /\ lastTransaction' = now
  /\ since' = since + 1
  /\ subRes' = [subRes EXCEPT ![r] = @ + 1]
  /\ sent' = [sent EXCEPT ![TxOf(r)].st = "acked", ![TxOf(r)].ok = TRUE]
  /\ pc' = [pc EXCEPT ![r] = "waitReceipt"]
  /\ UNCHANGED <<txRequests, base, now, err, subRej, confRes, confRej, notifs,
                 rstatus, balanceSeen, startNonce, nonce0, instr>>

\* forwardOrThrow rejected before the timer fired: nothing was broadcast
submitThrows(r) ==
  /\ pc[r] = "submit"
  /\ ~TimedOut(now, timer[r])
  /\ timer' = [timer EXCEPT ![r] = Undefined]
  /\ sent' = [sent EXCEPT ![TxOf(r)].st = "settled"]
  /\ Fail(r, "network")
  /\ UNCHANGED <<txRequests, nonceState, now, time_submitted, notifs,
                 rstatus, balanceSeen, startNonce, nonce0, instr>>

\* state of the handed transaction once the timer has fired: the call of
\* forwardOrThrow was made and is not cancelled
AfterTimeout(st) == "orphan"

\* the timer of timeoutAfter fired first
submitTimeout(r) ==
  /\ pc[r] = "submit"
  /\ TimedOut(now, timer[r])
  /\ timer' = [timer EXCEPT ![r] = Undefined]
  /\ sent' = [sent EXCEPT ![TxOf(r)].st = AfterTimeout(@)]
  /\ Fail(r, "timeout")
  /\ UNCHANGED <<txRequests, nonceState, now, time_submitted, notifs,
                 rstatus, balanceSeen, startNonce, nonce0, instr>>

\* waitForTransaction returned a receipt of status s
receipt(r, s) ==
  /\ pc[r] = "waitReceipt"
  /\ confRes' = [confRes EXCEPT ![r] = @ + 1]
  /\ rstatus' = [rstatus EXCEPT ![r] = s]
  /\ err' = [err EXCEPT ![r] = IF s # 1 THEN "reverted" ELSE @]
  /\ sent' = [sent EXCEPT ![TxOf(r)].st = "settled"]
  /\ pc' = [pc EXCEPT ![r] = "log"]
  /\ UNCHANGED <<txRequests, nonceState, now, locals, subRes, subRej,
                 confRej, notifs, balanceSeen, startNonce, nonce0, instr>>

\* waitForTransaction threw: the fate of the transaction is not known
receiptThrows(r) ==
  /\ pc[r] = "waitReceipt"
  /\ sent' = [sent EXCEPT ![TxOf(r)].st = "orphan"]
  /\ Fail(r, "receipt")
  /\ UNCHANGED <<txRequests, nonceState, now, locals, notifs,
                 rstatus, balanceSeen, startNonce, nonce0, instr>>

\* the end of execute: the record is handed to the sink unless the account
\* opted out; execute returns and the queue goes on
logEvent(r) ==
  /\ pc[r] = "log"
  /\ records' = IF account \in optout THEN records ELSE records + 1
  /\ Release(r)
  /\ UNCHANGED <<nonceState, now, timer, err, futures, notifs, sent,
                 rstatus, balanceSeen, nonce0, account, optout>>

logThrowsRejects(r) ==
  /\ pc[r] = "log"
  /\ subRej' = [subRej EXCEPT ![r] = @ + 1]
  /\ Release(r)
  /\ UNCHANGED <<nonceState, now, timer, err, subRes, confRes, confRej,
                 notifs, sent, rstatus, balanceSeen, nonce0, instr>>

\* the end of execute threw before the sink was called (JSON.stringify,
\* the connection or the localStorage lookup): callbackify hands the error
\* to noop and the queue goes on
logThrows(r) ==
  /\ pc[r] = "log"
  /\ Release(r)
  /\ UNCHANGED <<nonceState, now, timer, err, futures, notifs, sent,
                 rstatus, balanceSeen, nonce0, instr>>

\* the sink was called with the record and threw: callbackify hands the
\* error to noop and the queue goes on
sinkThrows(r) ==
  /\ pc[r] = "log"
  /\ account \notin optout
  /\ records' = records + 1
  /\ Release(r)
  /\ UNCHANGED <<nonceState, now, timer, err, futures, notifs, sent,
                 rstatus, balanceSeen, nonce0, account, optout>>

\* the network mines or drops a transaction nobody waits for any longer
\* (st: handed = forwardOrThrow pending, acked = in the pending pool,
\* orphan = still in flight with nobody waiting, settled = mined or dropped)
networkSettles(i) ==
  /\ i \in 1..Len(sent)
  /\ sent[i].st = "orphan"
  /\ sent' = [sent EXCEPT ![i].st = "settled"]
  /\ UNCHANGED <<pc, txRequests, nonceState, now, locals, err,
                 futures, notifs, rstatus, balanceSeen, startNonce, nonce0,
                 instr>>

\* a comparison with Date.now() can still change when more time passes
TimeMatters ==
  \/ ~IsStale(now, lastTransaction)
  \/ \E r \in Reqs : pc[r] = "submit" /\ ~TimedOut(now, timer[r])

\* time passes (steps of the clock that change no comparison are left out)
tick ==
  /\ now < StartTime + MaxTicks * TickMs
  /\ TimeMatters
  /\ now' = now + TickMs
  /\ UNCHANGED <<pc, txRequests, nonceState, locals, err, futures,
                 notifs, sent, rstatus, balanceSeen, startNonce, nonce0, instr>>

\* a step of execute for some request
execute ==
  \E r \in Reqs :
    \/ \E b \in Balances : checkBalance(r, b)
    \/ checkBalanceThrows(r)
    \/ \E n \in NetNonces : maybeUpdateNonce(r, n)
    \/ maybeUpdateNonceThrows(r)
    \/ popupApproves(r)
    \/ popupDenies(r)
    \/ submit(r)
    \/ populateThrows(r)
    \/ submitAck(r)
    \/ submitThrows(r)
    \/ submitTimeout(r)
    \/ \E s \in ReceiptStatuses : receipt(r, s)
    \/ receiptThrows(r)
    \/ logEvent(r)
    \/ logThrows(r)
    \/ sinkThrows(r)

Next ==
  \/ \E r \in Reqs : makeRequest(r)
  \/ execute
  \/ \E i \in 1..MaxReq : networkSettles(i)
  \/ tick

Spec == Init /\ [][Next]_vars

\* every collaborator call eventually returns or fails, and the event loop
\* runs the continuation of execute
LiveSpec == Spec /\ WF_vars(execute)

\* ---- properties -----------------------------------------------------------

\* the submission future of r has been resolved or rejected
SubSettled(r) == subRes[r] + subRej[r] > 0

\* the confirmed future of r has been resolved or rejected
ConfSettled(r) == confRes[r] + confRej[r] > 0

\* C9: a failing request never blocks the queue: when every collaborator
\* call eventually returns or fails, every enqueued request eventually has
\* its submission future settled.  (Being enqueued and being settled are
\* both stable, so "each enqueued request is eventually settled" is
\* "again and again, every enqueued request is settled".)
C9_EveryRequestSettles ==
  []<>(\A r \in Reqs : pc[r] # "new" => SubSettled(r))

\* a request failed and the request enqueued after it was settled
C9_Witness ==
  \E r \in Reqs : /\ r + 1 \in Reqs
                  /\ subRej[r] = 1
                  /\ pc[r] = "done"
                  /\ SubSettled(r + 1)

\* the transaction is handed to the network and neither mined nor dropped
InFlight(t) == t.st \in {"handed", "acked", "orphan"}

\* the successfully submitted transactions, in the order of submission
OkSent == SelectSeq(sent, LAMBDA t : t.ok)

\* C1: submission futures settle in enqueue order: the submission future of
\* a request is never settled before that of every earlier-enqueued request.
C1_SubmissionOrder ==
  \A i, j \in Reqs : (i < j /\ SubSettled(j)) => SubSettled(i)

\* a request was rejected and the request enqueued after it is settled too
C1_Witness ==
  \E j \in Reqs : j > 1 /\ SubSettled(j) /\ subRej[j - 1] = 1

\* C2: at most one request is being processed by the worker, and a request
\* is started only after every earlier one has returned from execute with
\* its submission step finished.
C2_SingleWorker ==
  /\ Cardinality(Active) <= 1
  /\ \A i, j \in Reqs :
       (i < j /\ pc[j] \notin {"new", "queued"}) =>
         (pc[i] = "done" /\ SubSettled(i))

\* a request waits in the queue while another is at its network submission
C2_Witness ==
  \E r \in Reqs : pc[r] = "submit" /\ txRequests # <<>>

C4_NoSharedNonceInFlight ==
  \A i, j \in 1..Len(sent) :
    (i # j /\ InFlight(sent[i]) /\ InFlight(sent[j])) =>
      sent[i].nonce # sent[j].nonce

\* C5: the nonce held by the executor never decreases.
C5_NonceNeverDecreases == [][nonce' >= nonce]_vars

\* C6: a request whose receipt reports failed execution has its submission
\* future resolved and its confirmed future rejected, never resolved.
C6_RevertedRejectsConfirmed ==
  \A r \in Reqs :
    (rstatus[r] # Undefined /\ rstatus[r] # 1) =>
      (subRes[r] = 1 /\ confRej[r] = 1 /\ confRes[r] = 0)

\* C7: when the balance is below the floor the submission future is rejected
\* with the balance error, the notification fires once for the request, no
\* transaction is handed to the network, the nonce is the one execute found,
\* and the next request starts with that same nonce.
C7_BalanceFailure ==
  \A r \in Reqs :
    (balanceSeen[r] # Undefined /\ balanceSeen[r] < MIN_BALANCE_ETH) =>
      /\ subRej[r] = 1 /\ subRes[r] = 0 /\ ~ConfSettled(r)
      /\ err[r] = "balance"
      /\ notifs[r] = 1
      /\ \A i \in 1..Len(sent) : sent[i].req # r
      /\ pc[r] = "log" => nonce = startNonce[r]
      /\ (r + 1 \in Reqs /\ pc[r + 1] \notin {"new", "queued"}) =>
           startNonce[r + 1] = startNonce[r]

\* after a balance failure the next request was submitted with the nonce
\* the failed request had found
C7_Witness ==
  \E r \in Reqs :
    /\ r + 1 \in Reqs
    /\ err[r] = "balance"
    /\ subRes[r + 1] = 1
    /\ \E i \in 1..Len(sent) :
         sent[i].req = r + 1 /\ sent[i].nonce = startNonce[r]

\* C8: when the timer of the submission has elapsed without acknowledgement
\* the request leaves the submission step with its submission future
\* rejected with the timeout error and the nonce and the last-transaction
\* timestamp unchanged, and when its execute returns the head of the queue
\* is started.
C8_SubmissionTimeout ==
  [][\A r \in Reqs :
       /\ (/\ pc[r] = "submit"
           /\ now - timer[r] >= TX_SUBMIT_TIMEOUT
           /\ pc'[r] # "submit") =>
            /\ pc'[r] = "log"
            /\ err'[r] = "timeout"
            /\ subRej'[r] = subRej[r] + 1
            /\ subRes'[r] = 0
            /\ nonce' = nonce
            /\ lastTransaction' = lastTransaction
       /\ (/\ pc[r] = "log"
           /\ err[r] = "timeout"
           /\ pc'[r] # "log") =>
            /\ pc'[r] = "done"
            /\ nonce' = nonce
            /\ lastTransaction' = lastTransaction
            /\ txRequests # <<>> => pc'[Head(txRequests)] = "checkBalance"]_vars

\* a submission timed out and the next request has been started
C8_Witness ==
  \E r \in Reqs :
    /\ r + 1 \in Reqs
    /\ err[r] = "timeout"
    /\ subRej[r] = 1
    /\ pc[r + 1] \notin {"new", "queued"}

\* C10: each channel of a request is settled at most once; the confirmed
\* future is settled only after the submission future was resolved; a
\* request whose submission future was rejected never waits for a receipt
\* and its confirmed future stays pending.
C10_ChannelsSettleOnce ==
  \A r \in Reqs :
    /\ subRes[r] + subRej[r] <= 1
    /\ confRes[r] + confRej[r] <= 1
    /\ ConfSettled(r) => subRes[r] = 1
    /\ pc[r] = "waitReceipt" => subRes[r] = 1
    /\ subRej[r] > 0 =>
         (~ConfSettled(r) /\ pc[r] # "waitReceipt" /\ rstatus[r] = Undefined)

\* one request was rejected at submission and has returned, another was
\* submitted and its receipt wait failed
C10_Witness ==
  \E q, r \in Reqs :
    /\ subRej[q] = 1 /\ pc[q] = "done"
    /\ subRes[r] = 1 /\ confRej[r] = 1

\* requests for which execute has returned or thrown
Done == {r \in Reqs : pc[r] = "done"}

\* C11: for every processed request of an account that has not opted out
\* exactly one record is handed to the sink, after the request's submission
\* future was settled and in the step in which the worker leaves the
\* request, so before the next request is started.
C11_OneRecordPerRequest ==
  [][\A r \in Reqs :
       (pc[r] = "log" /\ pc'[r] # "log" /\ account \notin optout) =>
         (SubSettled(r) /\ records' = records + 1)]_vars

\* C12: the opt-out is per account: no record is emitted for a request
\* processed for an account whose flag is set, and every request processed
\* for an account whose flag is not set has its record emitted although the
\* flag of another account is set.
C12_OptOutPerAccount ==
  /\ account \in optout => records = 0
  /\ (account \notin optout /\ optout # {}) => records = Cardinality(Done)

\* C13: makeRequest returns at once, whether the worker is idle or busy,
\* with both futures of the request unsettled, and changes neither the
\* nonce nor the last-transaction timestamp; no future of another request
\* is settled by it either.
C13_MakeRequestReturnsUnsettled ==
  [][\A r \in Reqs :
       (pc[r] = "new" /\ pc'[r] # "new") =>
         /\ pc'[r] \in {"queued", "checkBalance"}
         /\ ~SubSettled(r)' /\ ~ConfSettled(r)'
         /\ UNCHANGED futures
         /\ nonce' = nonce
         /\ lastTransaction' = lastTransaction]_vars

\* a request was enqueued while the worker was busy and another is being
\* processed; both futures of the enqueued request are unsettled
C13_Witness ==
  \E q, r \in Reqs :
    /\ pc[q] \in ActivePcs
    /\ pc[r] = "queued" /\ ~SubSettled(r) /\ ~ConfSettled(r)

\* the transactions handed to forwardOrThrow for request r
SentFor(r) == {i \in 1..Len(sent) : sent[i].req = r}

\* C14: no automatic retry: for every request forwardOrThrow is called at
\* most once, also after a timeout or a network error, and a request that
\* has left the queue is never put back on it or processed again.
C14_NoRetry ==
  /\ [](\A r \in Reqs :
         /\ Cardinality(SentFor(r)) <= 1
         /\ Cardinality({i \in 1..Len(txRequests) : txRequests[i] = r}) <= 1)
  /\ [][\A r \in Reqs :
          /\ pc[r] \notin {"new", "queued"} => pc'[r] \notin {"new", "queued"}
          /\ pc[r] \in {"log", "done"} =>
               (pc'[r] \in {"log", "done"} /\ SentFor(r)' = SentFor(r))
          /\ pc[r] = "done" => pc'[r] = "done"]_vars

\* a request whose submission timed out has returned from execute after
\* one call of forwardOrThrow
C14_Witness ==
  \E r \in Reqs :
    err[r] = "timeout" /\ pc[r] = "done" /\ Cardinality(SentFor(r)) = 1

\* C15: the nonce changes in two ways only: every successful submission
\* adds exactly 1 to it, whatever the receipt brings later, and a staleness
\* refresh replaces it by the value the network reported; no other step
\* (enqueueing, a failure before or at submission, a receipt) changes it.
C15_NonceChanges ==
  [][/\ \A r \in Reqs :
          (pc[r] = "submit" /\ pc'[r] = "waitReceipt") =>
            (nonce' = nonce + 1 /\ subRes'[r] = subRes[r] + 1)
     /\ nonce' # nonce =>
          \E r \in Reqs :
            \/ pc[r] = "submit" /\ pc'[r] = "waitReceipt"
            \/ pc[r] = "getNonce" /\ pc'[r] = "popup" /\ nonce' \in NetNonces
     /\ \A r \in Reqs :
          (pc[r] = "waitReceipt" /\ pc'[r] # "waitReceipt") => nonce' = nonce]_vars

\* a transaction was submitted, its receipt reported failed execution and
\* the nonce it carried stays consumed
C15_Witness ==
  \E r \in Reqs :
    /\ rstatus[r] = 0
    /\ pc[r] = "log"
    /\ nonce = sent[TxOf(r)].nonce + 1

\* the steps of execute a request may be at right after the step p
StepsAfter(p) ==
  CASE p = "new" -> {"queued", "checkBalance"}
    [] p = "queued" -> {"checkBalance"}
    [] p = "checkBalance" -> {"getNonce", "popup", "log"}
    [] p = "getNonce" -> {"popup", "log"}
    [] p = "popup" -> {"populate", "log"}
    [] p = "populate" -> {"submit", "log"}
    [] p = "submit" -> {"waitReceipt", "log"}
    [] p = "waitReceipt" -> {"log"}
    [] p = "log" -> {"done"}
    [] OTHER -> {}

\* C16: a request goes through balance check, refresh-if-stale,
\* confirmation gate, network submission and receipt wait in this order; a
\* failed step is followed by the logging tail only; the refresh happens at
\* most once and before the nonce is read for the submission; a request
\* that failed the balance check or was denied at the gate is never handed
\* to the network.
C16_StepOrder ==
  /\ [](\A r \in Reqs :
         /\ err[r] \in {"balance", "denied"} => SentFor(r) = {}
         /\ (err[r] # "none" /\ subRej[r] = 1) =>
              pc[r] \in {"log", "done"}
         /\ pc[r] \in {"checkBalance", "getNonce", "popup", "populate"} =>
              (SentFor(r) = {} /\ err[r] = "none"))
  /\ [][\A r \in Reqs :
          /\ pc'[r] # pc[r] => pc'[r] \in StepsAfter(pc[r])
          /\ (pc[r] = "checkBalance" /\ pc'[r] \in {"getNonce", "popup"}) =>
               balanceSeen'[r] >= MIN_BALANCE_ETH
          /\ SentFor(r)' # SentFor(r) =>
               /\ pc[r] = "populate" /\ pc'[r] = "submit"
               /\ sent'[Len(sent')].nonce = nonce]_vars

\* a request was denied at the confirmation gate and has returned from
\* execute without a call of forwardOrThrow
C16_Witness ==
  \E r \in Reqs : err[r] = "denied" /\ pc[r] = "done" /\ SentFor(r) = {}

\* request r passes the balance check in this step
PassesBalance(r) ==
  pc[r] = "checkBalance" /\ pc'[r] \in {"getNonce", "popup"}

\* C17 as stated: the nonce is refreshed for a request exactly when a
\* submission has succeeded before and more than the threshold has elapsed
\* since the last one; the time since the executor was created plays no role.
C17_RefreshSinceLastSubmission ==
  [][\A r \in Reqs :
       PassesBalance(r) =>
         (pc'[r] = "getNonce" <=>
            (Len(OkSent) > 0 /\
             now - lastTransaction > NONCE_STALE_AFTER_MS))]_vars

\* C17 amended: the nonce is refreshed for a request exactly when more than
\* the threshold has elapsed since the last successful submission or, as
\* long as no submission has succeeded, since the executor was created;
\* only a successful submission advances that timestamp.
C17_RefreshWhenStale ==
  /\ [](Len(OkSent) = 0 => lastTransaction = StartTime)
  /\ [][/\ \A r \in Reqs :
            /\ PassesBalance(r) =>
                 (pc'[r] = "getNonce" <=>
                    now - lastTransaction > NONCE_STALE_AFTER_MS)
            /\ (pc[r] = "submit" /\ pc'[r] = "waitReceipt") =>
                 lastTransaction' = now
        /\ lastTransaction' # lastTransaction =>
             \E r \in Reqs : pc[r] = "submit" /\ pc'[r] = "waitReceipt"]_vars

\* the nonce is being refreshed for a request processed more than the
\* threshold after an earlier successful submission
C17_Witness ==
  \E r \in Reqs :
    /\ pc[r] = "getNonce"
    /\ Len(OkSent) > 0
    /\ now - lastTransaction > NONCE_STALE_AFTER_MS

\* C18: a failure of the instrumentation step does not affect request
\* outcomes: the step in which execute leaves its logging tail, by
\* returning or by throwing, changes no future and neither the nonce nor
\* the last-transaction timestamp, and starts the head of the queue.
C18_InstrumentationIsolated ==
  [][\A r \in Reqs :
       (pc[r] = "log" /\ pc'[r] # "log") =>
         /\ pc'[r] = "done"
         /\ UNCHANGED futures
         /\ err' = err
         /\ nonce' = nonce
         /\ lastTransaction' = lastTransaction
         /\ txRequests # <<>> =>
              /\ pc'[Head(txRequests)] = "checkBalance"
              /\ txRequests' = Tail(txRequests)]_vars

\* the tail of execute threw for the first request of an account that has
\* not opted out (no record although the request is done), the request
\* keeps its resolved futures and the next request has been started
C18_Witness ==
  /\ account \notin optout
  /\ records = 0
  /\ pc[1] = "done"
  /\ subRes[1] = 1 /\ confRes[1] = 1
  /\ pc[2] \notin {"new", "queued"}

\* C19: the receipt wait is part of the worker's turn: while a request is
\* at any step of execute, its confirmation gate and its receipt wait
\* included, every later request is still unprocessed; so a confirmed
\* future is settled only when every earlier request has returned from
\* execute, and confirmed futures settle in enqueue order.
C19_ReceiptSerialized ==
  \A i, j \in Reqs :
    i < j =>
      /\ pc[i] \in {"popup", "waitReceipt"} => pc[j] \in {"new", "queued"}
      /\ pc[i] \in ActivePcs => (~SubSettled(j) /\ ~ConfSettled(j))
      /\ (ConfSettled(j) /\ subRes[i] = 1) => ConfSettled(i)

\* a request waits for its receipt while a later request is in the queue
C19_Witness ==
  \E r \in Reqs : pc[r] = "waitReceipt" /\ txRequests # <<>>

====
